---- MODULE Spec2Model ----
(***************************************************************************)
(* WorkHive backend: the role gate (sessionChecker), the credential        *)
(* lifecycle (createUserToken, isValidToken, logout, verify-token) and the *)
(* user store operations reached through them.                             *)
(***************************************************************************)
EXTENDS Integers, FiniteSets, Sequences, TLC

(* ------------------------------ bounds --------------------------------- *)
MaxUsers == 2
MaxTime == 1
MaxLogins == 1
MaxRevoked == 1
TokenLifetime == 1
MaxTableros == 2
MaxTareas == 2
MaxClients == 2

(* ---------------------------- value domains ---------------------------- *)
Undefined == "undefined"
Null == [null |-> TRUE]
Undef == [undefined |-> TRUE]

Roles == {"administrador", "usuario"}
Nombres == {"Ana"}
Emails == {"ana@x.es", "luis@x.es"}
(* A password as typed is [text |-> ...]; its digest is [sha512 |-> ...]. *)
Passwords == {[text |-> "Clave#1234"]}

(* The digest js-sha512 returns for a string. *)
sha512(p) == [sha512 |-> p]

(* What a login request may send as password: the password, another one,   *)
(* or the digest of the password.                                           *)
LoginPasswords ==
  Passwords \cup {[text |-> "Erronea#99"]} \cup { sha512(p) : p \in Passwords }
Ids == 1..MaxUsers
TableroIds == 1..MaxTableros

(* The claim set jwt.sign / jwt.verify carry: the payload plus iat and exp. *)
TokenOf(id, nombre, rol, profile, iat) ==
  [id |-> id, nombre |-> nombre, rol |-> rol, profile |-> profile,
   iat |-> iat, exp |-> iat + TokenLifetime]

(* createUserToken: payload {id, nombre, rol}; no profile claim is written. *)
createUserToken(usuario, clock) ==
  TokenOf(usuario.id, usuario.nombre, usuario.rol, Undefined, clock)

(* Tokens signed with JWT_SECRET whose payload carries a profile claim, the *)
(* claim sessionChecker reads. jwt.verify accepts them whoever signed them. *)
ProfileTokens ==
  { TokenOf(1, "Ana", Undefined, "administrador", 0),
    TokenOf(2, "Ana", Undefined, "usuario", 0) }

(* A token whose signature was not made with JWT_SECRET. *)
ForgedToken ==
  [id |-> 1, nombre |-> "Ana", rol |-> "administrador", profile |-> "administrador",
   iat |-> 0, exp |-> MaxTime + TokenLifetime + 1]

(* The clients that may have a board request in flight, and the handler of  *)
(* a client that has none.                                                  *)
Clients == 1..MaxClients
Idle == [op |-> "idle"]

VARIABLES usuarios, nextId, firebase, signed, invalidTokens, now, last,
          tableros, nextTableroId, tareas, pending

boardVars == <<tableros, nextTableroId, tareas, pending>>

vars == <<usuarios, nextId, firebase, signed, invalidTokens, now, last,
          boardVars>>

(* ------------------------------ jwt.verify ----------------------------- *)
(* "ok", or the name of the error jwt.verify throws. *)
jwtVerify_NoExpiry(token, sgn, clock) ==
  IF token \notin sgn THEN "JsonWebTokenError" ELSE "ok"

jwtVerify_NoSignature(token, sgn, clock) ==
  IF token = Undef THEN "JsonWebTokenError"
  ELSE IF clock >= token.exp THEN "TokenExpiredError"
  ELSE "ok"

jwtVerify(token, sgn, clock) ==
  IF token \notin sgn THEN "JsonWebTokenError"
  ELSE IF clock >= token.exp THEN "TokenExpiredError"
  ELSE "ok"

(* ------------------------------ user store ----------------------------- *)
getOne(store, id) ==
  IF \E u \in store : u.id = id THEN CHOOSE u \in store : u.id = id ELSE Null

getOneByEmailAndPassword(store, email, password) ==
  IF \E u \in store : u.email = email /\ u.password = password
  THEN CHOOSE u \in store : u.email = email /\ u.password = password
  ELSE Null

remove(store, id) == { u \in store : u.id # id }

(* ------------------------------ mongoose ------------------------------- *)
(* A document a query returns: the stored fields are held in _doc.          *)
Document(u) == IF u = Null THEN Null ELSE [_doc |-> u]

IsDocument(v) == "_doc" \in DOMAIN v

toJSON(d) == d._doc

(* delete obj[key] removes an own property of obj. The schema paths of a    *)
(* document are accessors of the model's prototype: the document has no own *)
(* property of that name and the stored value is left in place.             *)
deleteProperty(obj, key) ==
  IF IsDocument(obj) THEN obj
  ELSE [k \in DOMAIN obj \ {key} |-> obj[k]]

(* The user fields res.json(v) writes; documents serialise through toJSON.  *)
jsonFields(v) == IF IsDocument(v) THEN DOMAIN toJSON(v) ELSE DOMAIN v

(* ------------------------ Firebase Authentication ---------------------- *)
(* The error code signInWithEmailAndPassword rejects with, or "ok".        *)
signInWithEmailAndPassword(accounts, email, password) ==
  IF ~\E a \in accounts : a.email = email THEN "auth/user-not-found"
  ELSE IF ~\E a \in accounts : a.email = email /\ a.password = password
  THEN "auth/wrong-password"
  ELSE "ok"

NoResp == [route |-> "none"]

(* The response of a route that has no gate; body: the user fields in it.   *)
Response(route, status, token, body) ==
  [route |-> route, status |-> status, token |-> token, body |-> body]

Init ==
  /\ usuarios = {}
  /\ nextId = 1
  /\ firebase = {}
  /\ signed = ProfileTokens
  /\ invalidTokens = {}
  /\ now = 0
  /\ last = NoResp
  /\ tableros = {}
  /\ nextTableroId = 1
  /\ tareas = {}
  /\ pending = [c \in Clients |-> Idle]

(* A response status of 0 stands for a request that is never answered.     *)
(* ------------------------------ POST /usuarios ------------------------- *)
(* valid: the body passes createUsuarioValidations. usuariosRepository      *)
(* create replaces data.password by its digest, registers the account in    *)
(* Firebase with it, saves the user and returns the saved fields and the    *)
(* Firebase uid as a plain object.                                          *)
CreateUsuario(nombre, email, password, rol, valid) ==
  /\ LET existing == getOneByEmailAndPassword(usuarios, email, sha512(password))
         data == [id |-> nextId, nombre |-> nombre, email |-> email,
                  password |-> sha512(password), rol |-> rol]
     IN
     IF existing # Null
     THEN /\ last' = Response("POST /usuarios", 400, Undef, {})
          /\ UNCHANGED <<usuarios, nextId, firebase>>
     ELSE IF ~valid \/ \E a \in firebase : a.email = email
     THEN \* validate() or createUserWithEmailAndPassword (email already in
          \* use) rejects inside the form.parse callback, which nothing
          \* awaits or catches
          /\ last' = Response("POST /usuarios", 0, Undef, {})
          /\ UNCHANGED <<usuarios, nextId, firebase>>
     ELSE IF \E u \in usuarios : u.email = email
     THEN \* save() rejects on the unique index of email, after the account
          /\ firebase' = firebase \cup
               {[email |-> email, password |-> data.password]}
          /\ last' = Response("POST /usuarios", 0, Undef, {})
          /\ UNCHANGED <<usuarios, nextId>>
     ELSE /\ nextId <= MaxUsers
          /\ firebase' = firebase \cup
               {[email |-> email, password |-> data.password]}
          /\ usuarios' = usuarios \cup {data}
          /\ nextId' = nextId + 1
          /\ last' = Response("POST /usuarios", 201, Undef,
                               DOMAIN data \cup {"firebaseUid"})
  /\ UNCHANGED <<signed, invalidTokens, now, boardVars>>

(* --------------------------- POST /usuarios/logins --------------------- *)
Login(email, password) ==
  /\ LET user == Document(
                   getOneByEmailAndPassword(usuarios, email, sha512(password)))
     IN
     IF user = Null
     THEN /\ last' = Response("POST /usuarios/logins", 401, Undef, {})
          /\ UNCHANGED signed
     ELSE /\ Cardinality(signed \ ProfileTokens) < MaxLogins
             \/ createUserToken(toJSON(user), now) \in signed
          /\ signed' = signed \cup {createUserToken(toJSON(user), now)}
          /\ last' = Response("POST /usuarios/logins", 201,
                               createUserToken(toJSON(user), now),
                               jsonFields(deleteProperty(user, "password")))
  /\ UNCHANGED <<usuarios, nextId, firebase, invalidTokens, now, boardVars>>

(* The login handler that signs in with Firebase before the user lookup.   *)
LoginFirebase(email, password) ==
  /\ LET signIn == signInWithEmailAndPassword(firebase, email, password)
         usuario == getOneByEmailAndPassword(usuarios, email, sha512(password))
     IN
     IF signIn # "ok"
     THEN /\ last' = Response("POST /usuarios/logins", 401, Undef, {})
          /\ UNCHANGED signed
     ELSE IF usuario = Null
     THEN /\ last' = Response("POST /usuarios/logins", 401, Undef, {})
          /\ UNCHANGED signed
     ELSE /\ Cardinality(signed \ ProfileTokens) < MaxLogins
             \/ createUserToken(usuario, now) \in signed
          /\ signed' = signed \cup {createUserToken(usuario, now)}
          /\ last' = Response("POST /usuarios/logins", 201,
                               createUserToken(usuario, now), {})
  /\ UNCHANGED <<usuarios, nextId, firebase, invalidTokens, now, boardVars>>

(* ------------------------------ isValidToken --------------------------- *)
isValidToken_NoRevocation(token, invalid, sgn, clock) ==
  jwtVerify(token, sgn, clock) = "ok"

isValidToken(token, invalid, sgn, clock) ==
  IF token \in invalid THEN FALSE
  ELSE jwtVerify(token, sgn, clock) = "ok"

(* The Authorization header of a request: absent, a scheme with no token   *)
(* part, or "Bearer <token>".                                              *)
Headers(sgn) ==
  {[kind |-> "absent"], [kind |-> "scheme"]} \cup
  { [kind |-> "bearer", token |-> t] : t \in sgn \cup {ForgedToken} }

(* req.headers.authorization.split(' ')[1] *)
HeaderToken(h) == IF h.kind = "bearer" THEN h.token ELSE Undef

(* --------------------------- POST /usuarios/logout --------------------- *)
Logout(h) ==
  /\ IF h.kind = "absent"
     THEN \* split on undefined throws inside the async handler
          /\ \E st \in {0, 500} :
               last' = Response("POST /usuarios/logout", st, Undef, {})
          /\ UNCHANGED invalidTokens
     ELSE LET token == HeaderToken(h) IN
          IF ~isValidToken(token, invalidTokens, signed, now)
          THEN /\ last' = Response("POST /usuarios/logout", 401, token, {})
               /\ UNCHANGED invalidTokens
          ELSE /\ Cardinality(invalidTokens \cup {token}) <= MaxRevoked
               /\ invalidTokens' = invalidTokens \cup {token}
               /\ last' = Response("POST /usuarios/logout", 200, token, {})
  /\ UNCHANGED <<usuarios, nextId, firebase, signed, now, boardVars>>

(* ------------------------ POST /usuarios/verify-token ------------------ *)
VerifyToken(h) ==
  /\ LET token == HeaderToken(h) IN
     IF token = Undef
     THEN last' = Response("POST /usuarios/verify-token", 400, token, {})
     ELSE IF ~isValidToken(token, invalidTokens, signed, now)
               \/ token \in invalidTokens
     THEN last' = Response("POST /usuarios/verify-token", 401, token, {})
     ELSE last' = Response("POST /usuarios/verify-token", 200, token, {})
  /\ UNCHANGED <<usuarios, nextId, firebase, signed, invalidTokens, now,
                 boardVars>>

(* ------------------------------ sessionChecker ------------------------- *)
(* The route behind sessionChecker(allowedProfiles, isMandatory): the two  *)
(* user routes registered with these arguments, and "gate" for a route      *)
(* registered with any other arguments.                                     *)
RouteOf(allowedProfiles, isMandatory) ==
  IF allowedProfiles = {"administrador", "usuario"} /\ isMandatory
  THEN "GET /usuarios"
  ELSE IF allowedProfiles = {"administrador"} /\ isMandatory
  THEN "DELETE /usuarios/:id"
  ELSE "gate"

(* const token = req.token || null *)
PresentedTokens(sgn) == {Null} \cup sgn \cup {ForgedToken}

GateSync_OptionalWhenAbsent(token, allowedProfiles, isMandatory, sgn, clock) ==
  IF token = Null THEN "anonymous"
  ELSE IF jwtVerify(token, sgn, clock) # "ok" THEN jwtVerify(token, sgn, clock)
  ELSE IF token.profile \notin allowedProfiles THEN "ForbiddenError"
  ELSE "lookup"

GateSync_AlwaysRequired(token, allowedProfiles, isMandatory, sgn, clock) ==
  IF token = Null THEN "SessionRequiredError"
  ELSE IF jwtVerify(token, sgn, clock) # "ok" THEN jwtVerify(token, sgn, clock)
  ELSE IF token.profile \notin allowedProfiles THEN "ForbiddenError"
  ELSE "lookup"

GateSync_NoRoleCheck(token, allowedProfiles, isMandatory, sgn, clock) ==
  IF token = Null /\ isMandatory THEN "SessionRequiredError"
  ELSE IF token = Null /\ ~isMandatory THEN "anonymous"
  ELSE IF jwtVerify(token, sgn, clock) # "ok" THEN jwtVerify(token, sgn, clock)
  ELSE "lookup"

(* The gate up to its await: "SessionRequiredError", "anonymous", the jwt   *)
(* error name, "ForbiddenError", or "lookup" when getOne is awaited.        *)
GateSync(token, allowedProfiles, isMandatory, sgn, clock) ==
  IF token = Null /\ isMandatory THEN "SessionRequiredError"
  ELSE IF token = Null /\ ~isMandatory THEN "anonymous"
  ELSE IF jwtVerify(token, sgn, clock) # "ok" THEN jwtVerify(token, sgn, clock)
  ELSE IF token.profile \notin allowedProfiles THEN "ForbiddenError"
  ELSE "lookup"

GateResume_NotFound(user) ==
  IF user = Null THEN "NotFoundError" ELSE "next"

GateResume_NoCheck(user) == "next"

(* The gate after the await, on the user getOne returned. *)
GateResume(user) ==
  IF user = Null THEN "ForbiddenError" ELSE "next"

(* req.isAdminUser = tokenData.profile === 'admin' *)
IsAdminUser(tokenData) == tokenData.profile = "admin"

sessionChecker_AttachEarly(token, allowedProfiles, isMandatory, store, sgn, clock, dbFails) ==
  LET g == GateSync(token, allowedProfiles, isMandatory, sgn, clock) IN
  [outcome |-> IF g \in {"anonymous", "lookup"} THEN "next" ELSE g,
   attached |-> token # Null /\ jwtVerify(token, sgn, clock) = "ok",
   tokenData |-> token, isAdminUser |-> FALSE,
   lookups |-> IF g = "lookup" THEN 1 ELSE 0, nexts |-> 1]

sessionChecker_MaskStoreFailure(token, allowedProfiles, isMandatory, store, sgn, clock, dbFails) ==
  LET g == GateSync(token, allowedProfiles, isMandatory, sgn, clock)
      found == ~dbFails /\ g = "lookup" /\ getOne(store, token.id) # Null
  IN
  [outcome |-> IF g = "anonymous" \/ found THEN "next"
               ELSE IF g = "lookup" THEN "ForbiddenError" ELSE g,
   attached |-> g = "anonymous" \/ found,
   tokenData |-> IF g = "anonymous" THEN Null
                 ELSE IF found THEN token ELSE Undef,
   isAdminUser |-> found /\ IsAdminUser(token),
   lookups |-> IF g = "lookup" THEN 1 ELSE 0, nexts |-> 1]

(* The number of occurrences of ev in a trace. *)
Count(trace, ev) == Cardinality({ i \in 1..Len(trace) : trace[i] = ev })

GateTrace_LookupBeforeRoleCheck(token, allowedProfiles, isMandatory, store, sgn, clock, dbFails) ==
  LET g == GateSync(token, allowedProfiles, isMandatory, sgn, clock) IN
  IF g = "SessionRequiredError" THEN <<"next(err)">>
  ELSE IF g = "anonymous" THEN <<"assign", "next()">>
  ELSE IF g \in {"JsonWebTokenError", "TokenExpiredError"}
  THEN <<"jwt.verify", "next(err)">>
  ELSE IF g = "ForbiddenError" \/ dbFails
          \/ GateResume(getOne(store, token.id)) # "next"
  THEN <<"jwt.verify", "getOne", "includes", "next(err)">>
  ELSE <<"jwt.verify", "getOne", "includes", "assign", "next()">>

GateTrace_FallsThrough(token, allowedProfiles, isMandatory, store, sgn, clock, dbFails) ==
  LET g == GateSync(token, allowedProfiles, isMandatory, sgn, clock) IN
  IF g = "SessionRequiredError" THEN <<"next(err)">>
  ELSE IF g = "anonymous" THEN <<"assign", "next()">>
  ELSE IF g \in {"JsonWebTokenError", "TokenExpiredError"}
  THEN <<"jwt.verify", "next(err)">>
  ELSE IF g = "ForbiddenError"
  THEN <<"jwt.verify", "includes", "next(err)", "getOne", "next(err)">>
  ELSE IF dbFails \/ GateResume(getOne(store, token.id)) # "next"
  THEN <<"jwt.verify", "includes", "getOne", "next(err)">>
  ELSE <<"jwt.verify", "includes", "getOne", "assign", "next()">>

(* The calls the middleware makes on one request, in order: jwt.verify,     *)
(* allowedProfiles.includes, usuariosRepository.getOne, the assignment of   *)
(* the identity context, next() and next(err).                              *)
GateTrace(token, allowedProfiles, isMandatory, store, sgn, clock, dbFails) ==
  LET g == GateSync(token, allowedProfiles, isMandatory, sgn, clock) IN
  IF g = "SessionRequiredError" THEN <<"next(err)">>
  ELSE IF g = "anonymous" THEN <<"assign", "next()">>
  ELSE IF g \in {"JsonWebTokenError", "TokenExpiredError"}
  THEN <<"jwt.verify", "next(err)">>
  ELSE IF g = "ForbiddenError"
  THEN <<"jwt.verify", "includes", "next(err)">>
  ELSE IF dbFails \/ GateResume(getOne(store, token.id)) # "next"
  THEN <<"jwt.verify", "includes", "getOne", "next(err)">>
  ELSE <<"jwt.verify", "includes", "getOne", "assign", "next()">>

(* The middleware sessionChecker(allowedProfiles, isMandatory) returns, run *)
(* on one request: the argument of its call of next ("next" when it has     *)
(* none), what it assigned to req.tokenData and req.isAdminUser (attached   *)
(* is FALSE while both are still unassigned), the calls it made, and how    *)
(* many times it read the user store and called next. dbFails: getOne       *)
(* rejects.                                                                 *)
sessionChecker(token, allowedProfiles, isMandatory, store, sgn, clock, dbFails) ==
  LET g == GateSync(token, allowedProfiles, isMandatory, sgn, clock)
      trace == GateTrace(token, allowedProfiles, isMandatory, store, sgn,
                         clock, dbFails)
      none == [outcome |-> g, attached |-> FALSE, tokenData |-> Undef,
               isAdminUser |-> FALSE, trace |-> trace,
               lookups |-> Count(trace, "getOne"),
               nexts |-> Count(trace, "next()") + Count(trace, "next(err)")]
  IN  IF g = "anonymous"
      THEN [none EXCEPT !.outcome = "next", !.attached = TRUE,
                        !.tokenData = Null, !.isAdminUser = FALSE]
      ELSE IF g # "lookup" THEN none
      ELSE IF dbFails
      THEN [none EXCEPT !.outcome = "MongoError"]
      ELSE IF GateResume(getOne(store, token.id)) # "next"
      THEN [none EXCEPT !.outcome = GateResume(getOne(store, token.id))]
      ELSE [none EXCEPT !.outcome = "next", !.attached = TRUE,
                        !.tokenData = token,
                        !.isAdminUser = IsAdminUser(token)]

(* Where the principal a token names stands in the user store. *)
Principal(token, store, next) ==
  IF token = Null THEN "none"
  ELSE IF \E u \in store : u.id = token.id THEN "present"
  ELSE IF token.id < next THEN "deleted"
  ELSE "unknown"

(* GET /usuarios: the fields of the items of the list it answers with,     *)
(* each item.toJSON() with its password deleted.                            *)
listBody(store) ==
  UNION { DOMAIN deleteProperty(toJSON(Document(u)), "password") : u \in store }

(* A request to a guarded route: the gate, then the handler when the gate   *)
(* called next without an error. The request is logged with the facts that  *)
(* held when the gate decided it.                                           *)
Request(allowedProfiles, isMandatory, token, id, dbFails) ==
  /\ RouteOf(allowedProfiles, isMandatory) # "DELETE /usuarios/:id" => id = 1
  /\ dbFails =>
       GateSync(token, allowedProfiles, isMandatory, signed, now) = "lookup"
  /\ LET route == RouteOf(allowedProfiles, isMandatory)
         g == sessionChecker(token, allowedProfiles, isMandatory,
                             usuarios, signed, now, dbFails)
         facts == [route |-> route, allowedProfiles |-> allowedProfiles,
                   isMandatory |-> isMandatory, token |-> token, id |-> id,
                   at |-> now, dbFails |-> dbFails,
                   revoked |-> token \in invalidTokens,
                   principal |-> Principal(token, usuarios, nextId)]
     IN
     IF g.outcome # "next"
     THEN /\ last' = [gate |-> g, status |-> 0] @@ facts
          /\ UNCHANGED usuarios
     ELSE IF route = "DELETE /usuarios/:id"
     THEN /\ usuarios' = remove(usuarios, id)
          /\ last' = [gate |-> g,
                      status |-> IF getOne(usuarios, id) = Null
                                 THEN 404 ELSE 204] @@ facts
     ELSE /\ last' = [gate |-> g, status |-> 200,
                      body |-> IF route = "GET /usuarios"
                               THEN listBody(usuarios) ELSE {}] @@ facts
          /\ UNCHANGED usuarios
  /\ UNCHANGED <<nextId, firebase, signed, invalidTokens, now, boardVars>>

Tick ==
  /\ now < MaxTime
  /\ now' = now + 1
  /\ UNCHANGED <<usuarios, nextId, firebase, signed, invalidTokens, last,
                 boardVars>>

Next ==
  \/ \E n \in Nombres, e \in Emails, p \in Passwords, r \in Roles,
          valid \in BOOLEAN :
        CreateUsuario(n, e, p, r, valid)
  \/ \E e \in Emails, p \in LoginPasswords : Login(e, p)
  \/ \E e \in Emails, p \in LoginPasswords : LoginFirebase(e, p)
  \/ \E h \in Headers(signed) : Logout(h)
  \/ \E h \in Headers(signed) : VerifyToken(h)
  \/ \E a \in SUBSET Roles, m \in BOOLEAN, t \in PresentedTokens(signed),
          id \in Ids, dbFails \in BOOLEAN :
        Request(a, m, t, id, dbFails)
  \/ Tick

Spec == Init /\ [][Next]_vars

(* ============================== tableros =============================== *)
(* ---------------------------- tablerosRepository ----------------------- *)
getOneTablero(store, id) ==
  IF \E b \in store : b.id = id THEN CHOOSE b \in store : b.id = id ELSE Null

InArray(arr, x) == \E i \in 1..Len(arr) : arr[i] = x

(* $addToSet: appends the value unless the array holds it. *)
addToSet(arr, x) == IF InArray(arr, x) THEN arr ELSE Append(arr, x)

addCollaborator_NoFilter(store, tableroId, userId) ==
  LET b == getOneTablero(store, tableroId) IN
  IF b = Null THEN Null
  ELSE [b EXCEPT !.colaboradores = addToSet(b.colaboradores, userId)]

(* findOneAndUpdate({_id, colaboradores: {$ne: userId}}, {$addToSet}, {new}) *)
(* the updated board, or null when no board matches the filter.             *)
addCollaborator(store, tableroId, userId) ==
  IF \E b \in store : b.id = tableroId /\ ~InArray(b.colaboradores, userId)
  THEN LET b == getOneTablero(store, tableroId) IN
       [b EXCEPT !.colaboradores = addToSet(b.colaboradores, userId)]
  ELSE Null

(* The store after a findOneAndUpdate that returned updated. *)
Updated(store, updated) ==
  IF updated = Null THEN store
  ELSE { b \in store : b.id # updated.id } \cup {updated}

(* The response of a board route; tablero: the board it answers with.       *)
BoardResponse(route, status, tablero) ==
  [route |-> route, status |-> status, tablero |-> tablero]

(* The gate of the board routes, sessionChecker(['administrador',           *)
(* 'usuario'], true), on a request that presents token.                     *)
BoardGate(token) ==
  sessionChecker(token, {"administrador", "usuario"}, TRUE,
                 usuarios, signed, now, FALSE)

(* The colaboradores arrays a POST /tableros body may carry. *)
BodyColaboradores == {<<>>, <<2>>}

Spread_FirstWins(obj, overrides) == obj @@ overrides

(* { ...obj, key: value }: the properties of obj, those written after the   *)
(* spread replacing the ones of the same name.                              *)
Spread(obj, overrides) == overrides @@ obj

(* ------------------------------ POST /tableros ------------------------- *)
(* valid: the body passes createTableroValidations. The request is logged   *)
(* with the token and the body it carried.                                  *)
CreateTablero(token, administrador, colaboradores, valid) ==
  /\ LET g == BoardGate(token)
         curatedBody == [administrador |-> administrador,
                         colaboradores |-> colaboradores]
         request == [token |-> token, requestBody |-> curatedBody]
     IN
     IF g.outcome # "next" \/ ~valid
     THEN /\ last' = BoardResponse("POST /tableros", 0, Null) @@ request
          /\ UNCHANGED <<tableros, nextTableroId>>
     ELSE /\ nextTableroId <= MaxTableros
          /\ LET createdItem ==
                   [id |-> nextTableroId] @@
                   Spread(curatedBody, [administrador |-> g.tokenData.id])
             IN /\ tableros' = tableros \cup {createdItem}
                /\ last' = BoardResponse("POST /tableros", 201, createdItem)
                             @@ request
          /\ nextTableroId' = nextTableroId + 1
  /\ UNCHANGED <<usuarios, nextId, firebase, signed, invalidTokens, now,
                 tareas, pending>>

(* ---------------------- POST /tableros/:id/colaboradores --------------- *)
(* The request is logged with the userId of its body and the board the      *)
(* handler read before the update.                                          *)
AddCollaborator(token, tableroId, userId) ==
  /\ LET g == BoardGate(token)
         route == "POST /tableros/:id/colaboradores"
         tablero == getOneTablero(tableros, tableroId)
         updatedTablero == addCollaborator(tableros, tableroId, userId)
         request == [userId |-> userId, before |-> tablero]
     IN
     IF g.outcome # "next"
     THEN /\ last' = BoardResponse(route, 0, Null) @@ request
          /\ UNCHANGED tableros
     ELSE IF getOne(usuarios, userId) = Null
     THEN /\ last' = BoardResponse(route, 404, Null) @@ request
          /\ UNCHANGED tableros
     ELSE IF tablero = Null
     THEN /\ last' = BoardResponse(route, 404, Null) @@ request
          /\ UNCHANGED tableros
     ELSE /\ tableros' = Updated(tableros, updatedTablero)
          /\ last' = BoardResponse(route, 200, updatedTablero) @@ request
  /\ UNCHANGED <<usuarios, nextId, firebase, signed, invalidTokens, now,
                 nextTableroId, tareas, pending>>

(* Casting a value to an ObjectId: a value with an _id property casts to    *)
(* that _id.                                                                *)
castObjectId(value) ==
  IF "_id" \in DOMAIN value THEN value._id ELSE value.id

(* $pull: removes every occurrence of the value from the array. *)
pull(arr, x) == SelectSeq(arr, LAMBDA y : y # x)

(* findByIdAndUpdate(id, update, {new}) is findOneAndUpdate({_id: id}, ..): *)
(* the board whose id is the cast of the first argument, updated, or null.  *)
findByIdAndUpdate(store, id, userId) ==
  LET b == getOneTablero(store, castObjectId(id)) IN
  IF b = Null THEN Null
  ELSE [b EXCEPT !.colaboradores = pull(b.colaboradores, userId)]

removeCollaborator_AsFilter(store, tableroId, userId) ==
  IF \E b \in store : b.id = tableroId /\ ~InArray(b.colaboradores, userId)
  THEN LET b == getOneTablero(store, tableroId) IN
       [b EXCEPT !.colaboradores = pull(b.colaboradores, userId)]
  ELSE Null

(* findByIdAndUpdate({_id: tableroId, colaboradores: {$ne: userId}},        *)
(* {$pull: {colaboradores: userId}}, {new}): the object is passed as id.    *)
removeCollaborator(store, tableroId, userId) ==
  findByIdAndUpdate(store,
                    [_id |-> tableroId, colaboradores |-> [ne |-> userId]],
                    userId)

(* --------------------- DELETE /tableros/:id/colaboradores --------------- *)
(* The request is logged with the userId of its body and the board the      *)
(* handler read before the removal.                                         *)
RemoveCollaborator(token, tableroId, userId) ==
  /\ LET g == BoardGate(token)
         route == "DELETE /tableros/:id/colaboradores"
         tablero == getOneTablero(tableros, tableroId)
         updatedTablero == removeCollaborator(tableros, tableroId, userId)
         request == [userId |-> userId, before |-> tablero]
     IN
     IF g.outcome # "next"
     THEN /\ last' = BoardResponse(route, 0, Null) @@ request
          /\ UNCHANGED tableros
     ELSE IF getOne(usuarios, userId) = Null
     THEN /\ last' = BoardResponse(route, 404, Null) @@ request
          /\ UNCHANGED tableros
     ELSE IF tablero = Null
     THEN /\ last' = BoardResponse(route, 404, Null) @@ request
          /\ UNCHANGED tableros
     ELSE /\ tableros' = Updated(tableros, updatedTablero)
          /\ last' = BoardResponse(route, 200, updatedTablero) @@ request
  /\ UNCHANGED <<usuarios, nextId, firebase, signed, invalidTokens, now,
                 nextTableroId, tareas, pending>>

NextTableros ==
  \/ \E n \in Nombres, e \in Emails, p \in Passwords, r \in Roles,
          valid \in BOOLEAN :
        CreateUsuario(n, e, p, r, valid)
  \/ \E t \in PresentedTokens(signed), a \in Ids,
          c \in BodyColaboradores, valid \in BOOLEAN :
        CreateTablero(t, a, c, valid)
  \/ \E t \in PresentedTokens(signed), b \in TableroIds, u \in Ids :
        AddCollaborator(t, b, u)
  \/ \E t \in PresentedTokens(signed), b \in TableroIds, u \in Ids :
        RemoveCollaborator(t, b, u)

SpecTableros == Init /\ [][NextTableros]_vars

(* ================= PUT and DELETE /tableros/:id, in flight ============== *)
(* Each handler awaits getOne and then awaits update or remove; between the *)
(* two awaits the handlers of other requests run. pending[c] holds the      *)
(* handler of client c that has read the board and has not yet applied its  *)
(* operation.                                                               *)

(* findOneAndUpdate({_id: id}, data, {new, runValidators}): the board with  *)
(* the fields of data replaced, or null when no board has the id.           *)
update(store, id, data) ==
  LET b == getOneTablero(store, id) IN
  IF b = Null THEN Null ELSE data @@ b

(* The store after findOneAndDelete({_id: id}). *)
removeTablero(store, id) == { b \in store : b.id # id }

(* The bodies a PUT /tableros/:id may carry after validation. *)
UpdateBodies == {[colaboradores |-> <<>>], [colaboradores |-> <<1>>]}

(* PUT /tableros/:id up to the await of update. *)
PutTablero(c, token, itemId, curatedBody, valid) ==
  /\ pending[c] = Idle
  /\ LET g == BoardGate(token)
         route == "PUT /tableros/:id"
         item == getOneTablero(tableros, itemId)
     IN
     IF g.outcome # "next" \/ ~valid
     THEN last' = BoardResponse(route, 0, Null) /\ UNCHANGED pending
     ELSE IF item = Null
     THEN last' = BoardResponse(route, 404, Null) /\ UNCHANGED pending
     ELSE /\ pending' = [pending EXCEPT ![c] =
                           [op |-> "PUT", itemId |-> itemId,
                            curatedBody |-> curatedBody]]
          /\ UNCHANGED last
  /\ UNCHANGED <<usuarios, nextId, firebase, signed, invalidTokens, now,
                 tableros, nextTableroId, tareas>>

(* PUT /tableros/:id from the await of update to the response. *)
PutTableroUpdate(c) ==
  /\ pending[c].op = "PUT"
  /\ LET updatedItem == update(tableros, pending[c].itemId,
                               pending[c].curatedBody)
     IN /\ tableros' = Updated(tableros, updatedItem)
        /\ last' = BoardResponse("PUT /tableros/:id", 200, updatedItem)
  /\ pending' = [pending EXCEPT ![c] = Idle]
  /\ UNCHANGED <<usuarios, nextId, firebase, signed, invalidTokens, now,
                 nextTableroId, tareas>>

(* DELETE /tableros/:id up to the await of remove. *)
DeleteTablero(c, token, itemId) ==
  /\ pending[c] = Idle
  /\ LET g == BoardGate(token)
         route == "DELETE /tableros/:id"
         item == getOneTablero(tableros, itemId)
     IN
     IF g.outcome # "next"
     THEN last' = BoardResponse(route, 0, Null) /\ UNCHANGED pending
     ELSE IF item = Null
     THEN last' = BoardResponse(route, 404, Null) /\ UNCHANGED pending
     ELSE /\ pending' = [pending EXCEPT ![c] =
                           [op |-> "DELETE", itemId |-> itemId]]
          /\ UNCHANGED last
  /\ UNCHANGED <<usuarios, nextId, firebase, signed, invalidTokens, now,
                 tableros, nextTableroId, tareas>>

(* DELETE /tableros/:id from the await of remove to the response. *)
DeleteTableroRemove(c) ==
  /\ pending[c].op = "DELETE"
  /\ tableros' = removeTablero(tableros, pending[c].itemId)
  /\ last' = BoardResponse("DELETE /tableros/:id", 204, Null)
  /\ pending' = [pending EXCEPT ![c] = Idle]
  /\ UNCHANGED <<usuarios, nextId, firebase, signed, invalidTokens, now,
                 nextTableroId, tareas>>

NextTablerosById ==
  \/ \E n \in Nombres, e \in Emails, p \in Passwords, r \in Roles :
        CreateUsuario(n, e, p, r, TRUE)
  \/ \E t \in ProfileTokens, c \in BodyColaboradores :
        CreateTablero(t, t.id, c, TRUE)
  \/ \E c \in Clients, t \in PresentedTokens(signed), b \in TableroIds,
          d \in UpdateBodies, valid \in BOOLEAN :
        PutTablero(c, t, b, d, valid)
  \/ \E c \in Clients : PutTableroUpdate(c)
  \/ \E c \in Clients, t \in PresentedTokens(signed), b \in TableroIds :
        DeleteTablero(c, t, b)
  \/ \E c \in Clients : DeleteTableroRemove(c)

SpecTablerosById == Init /\ [][NextTablerosById]_vars

(* =============================== tareas ================================ *)
Estados == {"pendiente", "en_proceso", "en_revision", "completada"}

(* The estado values a request body may carry. *)
BodyEstados == Estados \cup {"archivada"}

(* req.params of a route whose path names no parameter. *)
NoParams == <<>>

(* validateEstadoTareaFormat(paramName): tests req.params[paramName] || ''. *)
validateEstadoTareaFormat(params, paramName) ==
  LET paramValue == IF paramName \in DOMAIN params
                    THEN params[paramName] ELSE ""
  IN  IF paramValue \in Estados THEN "next" ELSE "BadRequestError"

(* tareasRepository.listByState: find({tablero, estado}) *)
listByState(store, tablero, state) ==
  { x \in store : x.tablero = tablero /\ x.estado = state }

(* The response of a task route: error is the argument a middleware gave to *)
(* next, tareas the list the handler answers with.                          *)
TaskResponse(route, status, error, list) ==
  [route |-> route, status |-> status, error |-> error, tareas |-> list]

(* ------------------------------- POST /tareas -------------------------- *)
(* valid: the body passes createTareaValidations. *)
CreateTarea(token, tablero, estado, valid) ==
  /\ LET g == BoardGate(token) IN
     IF g.outcome # "next"
     THEN /\ last' = TaskResponse("POST /tareas", 0, g.outcome, {})
          /\ UNCHANGED tareas
     ELSE IF ~valid
     THEN /\ last' = TaskResponse("POST /tareas", 0, "ValidationError", {})
          /\ UNCHANGED tareas
     ELSE /\ Cardinality(tareas) < MaxTareas
          /\ LET createItem == [id |-> Cardinality(tareas) + 1,
                                tablero |-> tablero, estado |-> estado]
             IN /\ tareas' = tareas \cup {createItem}
                /\ last' = TaskResponse("POST /tareas", 201, "none",
                                        {createItem})
  /\ UNCHANGED <<usuarios, nextId, firebase, signed, invalidTokens, now,
                 tableros, nextTableroId, pending>>

(* ---------------------------- POST /tareas/estado ---------------------- *)
ListByState(token, tablero, estado) ==
  /\ LET g == BoardGate(token)
         body == [tablero |-> tablero, estado |-> estado]
         v == validateEstadoTareaFormat(NoParams, "estado")
     IN
     IF g.outcome # "next"
     THEN last' = TaskResponse("POST /tareas/estado", 0, g.outcome, {})
     ELSE IF v # "next"
     THEN last' = TaskResponse("POST /tareas/estado", 0, v, {})
     ELSE last' = TaskResponse("POST /tareas/estado", 200, "none",
                               listByState(tareas, body.tablero, body.estado))
  /\ UNCHANGED <<usuarios, nextId, firebase, signed, invalidTokens, now,
                 boardVars>>

NextTareas ==
  \/ \E n \in Nombres, e \in Emails, p \in Passwords, r \in Roles,
          valid \in BOOLEAN :
        CreateUsuario(n, e, p, r, valid)
  \/ \E t \in PresentedTokens(signed), b \in TableroIds, e \in Estados,
          valid \in BOOLEAN :
        CreateTarea(t, b, e, valid)
  \/ \E t \in PresentedTokens(signed), b \in TableroIds, e \in BodyEstados :
        ListByState(t, b, e)

SpecTareas == Init /\ [][NextTareas]_vars

(* =============================== properties ============================ *)
(* The last request went through a guarded route. *)
Gated == "gate" \in DOMAIN last

(* The gate let the last request through to its route handler. *)
Reached == Gated /\ last.gate.outcome = "next"

(* The last request carried a credential. *)
WithToken == Gated /\ last.token # Null

(* ... one that verified against JWT_SECRET and was unexpired at the time. *)
WithValidToken ==
  WithToken /\ last.token \in signed /\ last.at < last.token.exp

(* The role a credential carries: the profile claim the gate reads, or the  *)
(* rol claim createUserToken writes.                                        *)
RoleOf(token) ==
  IF token.profile # Undefined THEN token.profile ELSE token.rol

IssuedAtLogin(token) == token.rol # Undefined

InvalidCredential(outcome) ==
  outcome \in {"JsonWebTokenError", "TokenExpiredError"}

(* C1: a request reaches the handler behind the gate only if a credential   *)
(* was presented or the route is optional, and the credential verifies and  *)
(* is unexpired, is not revoked, carries a role in allowedProfiles and      *)
(* names a principal present in the user store at lookup time.              *)
C1_ReachedOnlyIfAuthorized ==
  Reached =>
    /\ last.token # Null \/ ~last.isMandatory
    /\ last.token # Null =>
         /\ last.token \in signed /\ last.at < last.token.exp
         /\ ~last.revoked
         /\ RoleOf(last.token) \in last.allowedProfiles
         /\ last.principal = "present"

(* C2: for a credential in the revoked set the gate's outcome is            *)
(* InvalidCredential and the handler is not reached.                        *)
C2_RevokedIsInvalidCredential ==
  (WithToken /\ last.revoked) =>
    InvalidCredential(last.gate.outcome) /\ last.status = 0

(* C3: a credential issued at login to a user that still exists and whose   *)
(* role is in allowedProfiles passes the gate with the context {id, nombre, *)
(* rol} of the credential and isAdminUser true exactly for the              *)
(* administrador role.                                                      *)
C3_LoginTokenPasses ==
  (WithValidToken /\ IssuedAtLogin(last.token) /\ ~last.revoked
     /\ last.principal = "present" /\ ~last.dbFails
     /\ last.token.rol \in last.allowedProfiles) =>
    /\ last.gate.outcome = "next"
    /\ last.gate.attached /\ last.gate.tokenData = last.token
    /\ last.gate.isAdminUser = (last.token.rol = "administrador")

(* C4: no credential on a mandatory gate gives SessionRequired, whatever    *)
(* allowedProfiles is, and the user store is not read.                      *)
C4_SessionRequired ==
  (Gated /\ last.token = Null /\ last.isMandatory) =>
    /\ last.gate.outcome = "SessionRequiredError"
    /\ last.gate.lookups = 0
    /\ last.status = 0

C4_Witness ==
  /\ Gated /\ last.token = Null /\ last.isMandatory
  /\ last.allowedProfiles = {}
  /\ last.gate.outcome = "SessionRequiredError"

(* C5: no credential on an optional gate reaches the handler with           *)
(* req.tokenData null and req.isAdminUser false.                            *)
C5_AnonymousPass ==
  (Gated /\ last.token = Null /\ ~last.isMandatory) =>
    /\ last.gate.outcome = "next" /\ last.status = 200
    /\ last.gate.attached
    /\ last.gate.tokenData = Null /\ last.gate.isAdminUser = FALSE

C5_Witness ==
  /\ Gated /\ last.token = Null /\ ~last.isMandatory
  /\ last.gate.outcome = "next" /\ last.gate.tokenData = Null

(* C6: an expired credential gives InvalidCredential on a mandatory and on  *)
(* an optional route alike; the request is let through neither as anonymous *)
(* nor with an identity context.                                            *)
C6_ExpiredIsInvalid ==
  (WithToken /\ last.at >= last.token.exp) =>
    /\ InvalidCredential(last.gate.outcome)
    /\ ~last.gate.attached /\ last.status = 0

C6_Witness ==
  /\ WithToken /\ last.token \in signed /\ last.at >= last.token.exp
  /\ ~last.isMandatory
  /\ last.gate.outcome = "TokenExpiredError"

(* C7: a valid, unrevoked, unexpired credential whose role is not in        *)
(* allowedProfiles gives Forbidden and the handler is not reached.          *)
C7_RoleNotAllowedIsForbidden ==
  (WithValidToken /\ ~last.revoked
     /\ RoleOf(last.token) \notin last.allowedProfiles) =>
    last.gate.outcome = "ForbiddenError" /\ last.status = 0

C7_Witness ==
  /\ WithValidToken /\ ~last.revoked
  /\ last.token.profile = "usuario"
  /\ last.allowedProfiles = {"administrador"}
  /\ last.principal = "present"
  /\ last.gate.outcome = "ForbiddenError"

(* C8: a valid credential whose subject id names no principal of the user   *)
(* store gives Forbidden, the outcome of a disallowed role, and no other    *)
(* outcome.                                                                 *)
C8_UnknownPrincipalIsForbidden ==
  (WithValidToken /\ ~last.revoked /\ ~last.dbFails
     /\ last.principal # "present") =>
    last.gate.outcome = "ForbiddenError" /\ last.status = 0

C8_Witness ==
  /\ WithValidToken /\ ~last.revoked /\ ~last.dbFails
  /\ last.principal # "present"
  /\ last.token.profile \in last.allowedProfiles
  /\ last.gate.lookups = 1
  /\ last.gate.outcome = "ForbiddenError"

(* C9: once a principal has been deleted, a request that presents its       *)
(* credential fails at the gate and reaches no handler.                     *)
C9_DeletedPrincipalFails ==
  (WithToken /\ last.principal = "deleted") =>
    last.gate.outcome # "next" /\ ~last.gate.attached /\ last.status = 0

C9_Witness ==
  /\ WithValidToken /\ last.principal = "deleted"
  /\ last.token.profile \in last.allowedProfiles
  /\ last.gate.lookups = 1 /\ ~last.dbFails
  /\ last.gate.outcome = "ForbiddenError"

(* C10: logout with a credential that is already revoked leaves the revoked *)
(* set as the first logout left it, and isValidToken is false for the       *)
(* credential after the first logout and after the second.                  *)
C10_RevokeIdempotent ==
  [][ \A t \in signed \cup {ForgedToken} :
        ( /\ Logout([kind |-> "bearer", token |-> t])
          /\ t \in invalidTokens \/ last'.status = 200 ) =>
        ( /\ invalidTokens' = invalidTokens \cup {t}
          /\ t \in invalidTokens => invalidTokens' = invalidTokens
          /\ ~isValidToken(t, invalidTokens', signed', now') ) ]_vars

C10_Witness ==
  /\ ~Gated /\ last.route = "POST /usuarios/logout"
  /\ last.status = 401
  /\ last.token \in invalidTokens

(* C11: isValidToken is false for a token that is in the revoked set, or    *)
(* does not verify, or is expired, and true for every other token;          *)
(* verify-token answers 400 without a token, 200 exactly when isValidToken  *)
(* is true and 401 otherwise.                                               *)
C11_IsValidTokenContract ==
  [][ \A h \in Headers(signed) :
        VerifyToken(h) =>
          LET usable == /\ h.kind = "bearer"
                        /\ h.token \notin invalidTokens
                        /\ h.token \in signed
                        /\ now < h.token.exp
          IN  /\ h.kind = "bearer" =>
                   isValidToken(h.token, invalidTokens, signed, now) = usable
              /\ last'.status = IF h.kind # "bearer" THEN 400
                                ELSE IF usable THEN 200 ELSE 401 ]_vars

C11_Witness ==
  /\ ~Gated /\ last.route = "POST /usuarios/verify-token"
  /\ last.status = 401
  /\ last.token \in signed /\ last.token \in invalidTokens
  /\ now < last.token.exp

(* C12: a credential in the revoked set stays in it and stays unusable      *)
(* through every later operation: isValidToken is false for it, and a       *)
(* later logout or verify-token that presents it answers 401.               *)
C12_RevokedIsTerminal ==
  [][ \A t \in invalidTokens :
        /\ t \in invalidTokens'
        /\ ~isValidToken(t, invalidTokens', signed', now')
        /\ Logout([kind |-> "bearer", token |-> t]) => last'.status = 401
        /\ VerifyToken([kind |-> "bearer", token |-> t]) =>
             last'.status = 401 ]_vars

C12_Witness ==
  /\ \E t \in invalidTokens : now < t.exp
  /\ ~Gated /\ last.route = "POST /usuarios/logins" /\ last.status = 201

(* C13: when the gate's outcome is SessionRequired, InvalidCredential or    *)
(* Forbidden, req.tokenData and req.isAdminUser are left unassigned, next   *)
(* is called once with the error, the handler does not run and no state     *)
(* changes; the context is attached only when the gate calls next()         *)
(* without an error.                                                        *)
C13_FailureShortCircuits ==
  [][ (last' # last /\ Gated') =>
        /\ last'.gate.outcome \in
             {"SessionRequiredError", "JsonWebTokenError",
              "TokenExpiredError", "ForbiddenError"} =>
               /\ ~last'.gate.attached
               /\ last'.gate.tokenData = Undef
               /\ last'.gate.nexts = 1
               /\ last'.status = 0
               /\ UNCHANGED <<usuarios, nextId, firebase, signed,
                               invalidTokens, now>>
        /\ last'.gate.attached => last'.gate.outcome = "next" ]_vars

C13_Witness ==
  /\ Gated /\ last.token = ForgedToken /\ ~last.isMandatory
  /\ last.gate.outcome = "JsonWebTokenError"
  /\ ~last.gate.attached /\ last.status = 0

(* C14: when the user store fails during the gate's principal lookup, the   *)
(* gate passes the store's error on: the outcome is none of                 *)
(* SessionRequired, InvalidCredential and Forbidden, and the handler is not *)
(* reached.                                                                 *)
C14_StoreFailurePropagates ==
  (Gated /\ last.dbFails) =>
    /\ last.gate.outcome = "MongoError"
    /\ last.gate.outcome \notin
         {"next", "SessionRequiredError", "JsonWebTokenError",
          "TokenExpiredError", "ForbiddenError"}
    /\ last.gate.lookups = 1 /\ last.gate.nexts = 1
    /\ ~last.gate.attached /\ last.status = 0

C14_Witness ==
  /\ Gated /\ last.dbFails /\ last.principal = "present"
  /\ last.token.profile \in last.allowedProfiles
  /\ last.gate.outcome = "MongoError"

(* C15: the handlers of the endpoints documented as requiring the           *)
(* administrator role are reached only by a caller whose credential carries *)
(* the role administrador.                                                  *)
C15_AdminOnlyEndpoints ==
  (Reached /\ last.route \in {"GET /usuarios", "DELETE /usuarios/:id"}) =>
    last.token # Null /\ RoleOf(last.token) = "administrador"

(* C16: every logout request is answered: 200 when the presented token is   *)
(* valid and unrevoked, and the token is then in the revoked set; 401 in    *)
(* every other case, a request without an Authorization header or without a *)
(* token part included, and then the revoked set is unchanged.              *)
C16_LogoutAlwaysAnswers ==
  [][ \A h \in Headers(signed) :
        Logout(h) =>
          IF /\ h.kind = "bearer"
             /\ h.token \notin invalidTokens
             /\ h.token \in signed
             /\ now < h.token.exp
          THEN last'.status = 200 /\ h.token \in invalidTokens'
          ELSE last'.status = 401 /\ UNCHANGED invalidTokens ]_vars

(* C17: every POST /usuarios request is answered, with 201 exactly when the *)
(* user was created and with 400 when the body fails validation or a user   *)
(* with that email exists; on a 400 the user store is unchanged.            *)
C17_CreateAlwaysAnswers ==
  [][ \A n \in Nombres, e \in Emails, p \in Passwords, r \in Roles,
         valid \in BOOLEAN :
        CreateUsuario(n, e, p, r, valid) =>
          /\ last'.status \in {201, 400}
          /\ last'.status = 201 <=> usuarios' # usuarios
          /\ (~valid \/ \E u \in usuarios : u.email = e) =>
               last'.status = 400 /\ UNCHANGED usuarios ]_vars

(* C18: no response of the user endpoints carries the password field of a   *)
(* user.                                                                    *)
C18_NoPasswordInResponses ==
  (last.route \in {"POST /usuarios", "POST /usuarios/logins",
                   "GET /usuarios"} /\ "body" \in DOMAIN last) =>
    "password" \notin last.body

(* C19: a login with the email and the password a user was created with     *)
(* answers 201 with a token; a login with that email and any other password *)
(* answers 401.                                                             *)
C19_CreateThenLogin ==
  [][ \A e \in Emails, p \in LoginPasswords :
        (Login(e, p) \/ LoginFirebase(e, p)) =>
          IF \E u \in usuarios : u.email = e /\ u.password = sha512(p)
          THEN last'.status = 201 /\ last'.token # Undef
          ELSE (\E u \in usuarios : u.email = e) => last'.status = 401 ]_vars

(* C20: POST /tableros/:id/colaboradores for an existing board and an       *)
(* existing user answers with the updated board, whose colaboradores holds  *)
(* the user, whether or not the user was a collaborator before; for a       *)
(* missing user or a missing board it answers 404 and changes no board.     *)
C20_AddCollaboratorAnswersBoard ==
  [][ \A t \in ProfileTokens, b \in TableroIds, u \in Ids :
        (AddCollaborator(t, b, u) /\ BoardGate(t).outcome = "next") =>
          IF getOne(usuarios, u) # Null /\ getOneTablero(tableros, b) # Null
          THEN /\ last'.status = 200
               /\ last'.tablero # Null
               /\ last'.tablero = getOneTablero(tableros', b)
               /\ InArray(last'.tablero.colaboradores, u)
          ELSE last'.status = 404 /\ UNCHANGED tableros ]_vars

(* C22: one run of the gate reads the user store at most once, and not at   *)
(* all when the request has no credential, when verification fails, or when *)
(* the credential's role is not in allowedProfiles: the role check comes    *)
(* before the lookup.                                                       *)
C22_AtMostOneLookup ==
  Gated =>
    /\ last.gate.lookups <= 1
    /\ ( \/ last.token = Null
         \/ last.token \notin signed
         \/ last.at >= last.token.exp
         \/ last.token.profile \notin last.allowedProfiles ) =>
           last.gate.lookups = 0
    /\ \A i, j \in 1..Len(last.gate.trace) :
         (last.gate.trace[i] = "includes" /\ last.gate.trace[j] = "getOne")
           => i < j

C22_Witness ==
  /\ WithValidToken /\ last.principal = "present"
  /\ last.token.profile \notin last.allowedProfiles
  /\ last.gate.outcome = "ForbiddenError" /\ last.gate.lookups = 0

(* C23: one run of the gate calls next exactly once, with no argument or    *)
(* with one error, as its last step; it verifies and looks up at most once  *)
(* and does neither after a failure.                                        *)
C23_ExactlyOneOutcome ==
  Gated =>
    LET trace == last.gate.trace
        IsNext(ev) == ev \in {"next()", "next(err)"}
    IN  /\ last.gate.nexts = 1
        /\ Count(trace, "next()") + Count(trace, "next(err)") = 1
        /\ IsNext(trace[Len(trace)])
        /\ Count(trace, "jwt.verify") <= 1 /\ Count(trace, "getOne") <= 1
        /\ (last.gate.outcome = "next") = (trace[Len(trace)] = "next()")

C23_Witness ==
  /\ WithValidToken /\ last.dbFails
  /\ last.gate.outcome = "MongoError"
  /\ last.gate.trace = <<"jwt.verify", "includes", "getOne", "next(err)">>

(* C21: POST /tareas/estado by a caller that passes the gate answers 200    *)
(* with exactly the tasks of the board in the state of the body when the    *)
(* estado is one of the four states, and rejects any other estado as a bad  *)
(* request.                                                                 *)
C21_ListByState ==
  [][ \A t \in ProfileTokens, b \in TableroIds, e \in BodyEstados :
        (ListByState(t, b, e) /\ BoardGate(t).outcome = "next") =>
          IF e \in Estados
          THEN /\ last'.status = 200
               /\ last'.tareas =
                    { x \in tareas : x.tablero = b /\ x.estado = e }
          ELSE last'.error = "BadRequestError" ]_vars

NoDuplicates(arr) ==
  \A i, j \in 1..Len(arr) : arr[i] = arr[j] => i = j

(* C25: over boards created without duplicate collaborators, every          *)
(* sequence of addCollaborator and removeCollaborator keeps each user id at *)
(* most once in colaboradores; adding a user who is already a collaborator  *)
(* leaves colaboradores unchanged; removing u leaves u absent and the other *)
(* collaborators, in their order, unchanged; no other board is touched.     *)
C25_CollaboratorsAreASet ==
  /\ [](/\ \A b \in tableros : NoDuplicates(b.colaboradores)
        /\ (last.route = "POST /tableros/:id/colaboradores"
              /\ last.status = 200)
             => getOneTablero(tableros, last.before.id).colaboradores =
                  addToSet(last.before.colaboradores, last.userId)
        /\ (last.route = "DELETE /tableros/:id/colaboradores"
              /\ last.status = 200)
             => LET after == getOneTablero(tableros, last.before.id) IN
                /\ after # Null
                /\ ~InArray(after.colaboradores, last.userId)
                /\ after.colaboradores =
                     SelectSeq(last.before.colaboradores,
                               LAMBDA y : y # last.userId))
  /\ [][(last'.route \in {"POST /tableros/:id/colaboradores",
                          "DELETE /tableros/:id/colaboradores"}
           /\ last'.status = 200)
          => /\ last'.before \in tableros
             /\ \A o \in tableros :
                  o.id # last'.before.id => o \in tableros'
     ]_vars

C25_Witness ==
  /\ last.route = "DELETE /tableros/:id/colaboradores"
  /\ last.status = 200
  /\ InArray(last.before.colaboradores, last.userId)
  /\ Len(last.before.colaboradores) = 2
  /\ last.tablero # Null
  /\ ~InArray(last.tablero.colaboradores, last.userId)
  /\ getOneTablero(tableros, last.tablero.id) = last.tablero

(* C26: the logout handlers of requests that carry the same token run one   *)
(* after the other (the handler never suspends). The one that finds the     *)
(* token verifiable and unrevoked answers 200 and revokes it; every logout  *)
(* that runs after it answers 401 and leaves the revoked set as it is; the  *)
(* revoked set never loses a token, so no second 200 follows; and a         *)
(* verify-token that runs after the 200 answers 401.                        *)
C26_OneLogoutWins ==
  [][ /\ invalidTokens \subseteq invalidTokens'
      /\ \A t \in signed \cup {ForgedToken} :
           LET h == [kind |-> "bearer", token |-> t]
               usable == /\ t \in signed /\ now < t.exp
                         /\ t \notin invalidTokens
           IN
           /\ (Logout(h) /\ usable) =>
                /\ last'.status = 200
                /\ invalidTokens' = invalidTokens \cup {t}
           /\ (Logout(h) /\ ~usable) =>
                /\ last'.status = 401
                /\ invalidTokens' = invalidTokens
           /\ (VerifyToken(h) /\ t \in invalidTokens) =>
                last'.status = 401 ]_vars

C26_Witness ==
  /\ ~Gated /\ last.route = "POST /usuarios/logout"
  /\ last.status = 401
  /\ last.token \in signed /\ now < last.token.exp
  /\ invalidTokens = {last.token}

(* C27: PUT /tableros/:id and DELETE /tableros/:id answer 404 when the      *)
(* board does not exist at the moment the update or the removal is applied, *)
(* whatever other requests ran since the handler read the board: PUT        *)
(* answers 200 only with the updated board, never with null, and DELETE     *)
(* answers 204 only for a board it removed, so that of two DELETEs of the   *)
(* same board at most one answers 204.                                      *)
C27_MissingBoardIs404 ==
  [][ \A c \in Clients :
        /\ (pending[c].op = "PUT" /\ PutTableroUpdate(c)) =>
             IF getOneTablero(tableros, pending[c].itemId) = Null
             THEN last'.status = 404
             ELSE last'.status = 200 /\ last'.tablero # Null
        /\ (pending[c].op = "DELETE" /\ DeleteTableroRemove(c)) =>
             IF getOneTablero(tableros, pending[c].itemId) = Null
             THEN last'.status = 404
             ELSE last'.status = 204 ]_vars
====
